---- MODULE Spec2Model ----
(***************************************************************************)
(* The shortest path kernel of grakel/kernels/shortest_path.py:           *)
(*   shortest_path                  the single-pair entry point            *)
(*   shortest_path_matrix           the histogram (feature map) kernel     *)
(*   shortest_path_pair_attributes  the attributed O(n^4) kernel           *)
(* Vertices, batch positions and feature indices are 0-based, as in the    *)
(* source: a numpy array or a dict keyed 0..n-1 is a function on 0..n-1.   *)
(***************************************************************************)
EXTENDS Integers, Sequences, FiniteSets, TLC

\* float("Inf"): the length of an unreachable pair
Inf == 999

\* the batch size (nx + ny) up to which inputs are enumerated
MaxGraphs == 3

AlgorithmTypes == {"dijkstra", "floyd_warshall", "auto"}

ZeroBased(seq) == [k \in 0..(Len(seq) - 1) |-> seq[k + 1]]

Matrix(rows) == ZeroBased([r \in 1..Len(rows) |-> ZeroBased(rows[r])])

Graph(rows, labels) == [S |-> Matrix(rows), labels |-> ZeroBased(labels)]

NoGraph == [S |-> << >>, labels |-> << >>]

(***************************************************************************)
(* The graphs the inputs are drawn from.  Each is the all-pairs shortest   *)
(* path matrix of a real graph with its vertex labels:                     *)
(*   a single vertex;  an undirected edge A-B;  a directed edge of weight  *)
(*   2 (one direction unreachable);  the triangle of Scenario A;  the path *)
(*   A-B-C of Scenario B;  an edge plus an isolated vertex.                *)
(***************************************************************************)
Triangle(labels) == Graph(<< <<0, 1, 1>>, <<1, 0, 1>>, <<1, 1, 0>> >>, labels)

GraphPool ==
    { Graph(<< <<0>> >>, <<"A">>),
      Graph(<< <<0, 1>>, <<1, 0>> >>, <<"A", "B">>),
      Graph(<< <<0, 2>>, <<Inf, 0>> >>, <<"B", "A">>),
      Triangle(<<"A", "A", "B">>),
      Graph(<< <<0, 1, 2>>, <<1, 0, 1>>, <<2, 1, 0>> >>, <<"A", "B", "C">>),
      Graph(<< <<0, 1, Inf>>, <<1, 0, Inf>>, <<Inf, Inf, 0>> >>, <<"B", "A", "B">>) }

\* graphs whose label vector is shorter or longer than the matrix dimension
DimPool ==
    { Graph(<< <<0, 1>>, <<1, 0>> >>, <<"A">>),
      Graph(<< <<0, 1>>, <<1, 0>> >>, <<"A", "B", "C">>),
      Graph(<< <<0, 1>>, <<1, 0>> >>, <<"A", "B">>) }

\* attributed graphs: the labels are attribute vectors (Scenario C first)
AttrPool ==
    { Graph(<< <<0, 1>>, <<1, 0>> >>, << <<1, 0>>, <<0, 1>> >>),
      Graph(<< <<0, 2>>, <<Inf, 0>> >>, << <<1, 1>>, <<1, 2>> >>),
      Graph(<< <<0, 1, 2>>, <<1, 0, 1>>, <<2, 1, 0>> >>,
            << <<1, 0>>, <<2, 1>>, <<0, 1>> >>),
      Graph(<< <<0, 1, Inf>>, <<2, 0, Inf>>, <<Inf, Inf, 0>> >>,
            << <<0, 1>>, <<1, 2>>, <<1, 1>> >>),
      Graph(<< <<0>> >>, << <<1, 1>> >>) }

\* dicts keyed 0..n-1 over a pool
Batches(pool, n) == [0..(n - 1) -> pool]

Shape0(S) == Cardinality(DOMAIN S)

(***************************************************************************)
(* Graph.build_shortest_path_matrix (grakel.graph, outside this file):     *)
(* fails on an unknown algorithm, else returns the path length matrix and, *)
(* unless labels = "none", the vertex labels.                              *)
(***************************************************************************)
build_shortest_path_matrix(g, algorithm, lt) ==
    IF algorithm \notin AlgorithmTypes
    THEN [err |-> "UnsupportedAlgorithm", S |-> << >>, L |-> << >>]
    ELSE [err |-> "", S |-> g.S, L |-> IF lt = "none" THEN << >> ELSE g.labels]

\* lines 112-117: the label mode asked of the graph
LabelMode(wl) == IF wl THEN "vertex" ELSE "none"

\* lines 112-117: the feature of an ordered pair.  The unlabelled feature,
\* the bare length, is held in a 1-tuple so that a key is always a tuple.
lhash(S, u, v, L, wl) ==
    IF wl THEN <<L[u], L[v], S[u][v]>> ELSE <<S[u][v]>>

\* Skipped with the unreachable pairs let through
SkippedDiagonalOnly(S, u, v) == u = v

\* Skipped with the pairs below the diagonal dropped as well
SkippedUpper(S, u, v) == u >= v \/ S[u][v] = Inf

\* line 127: the pairs the scan skips
Skipped(S, u, v) == u = v \/ S[u][v] = Inf

\* Enumerate with the new index one too far
EnumerateOffByOne(en, label) ==
    IF label \in DOMAIN en THEN en
    ELSE en @@ (label :> Cardinality(DOMAIN en) + 1)

\* lines 130-132: look the feature up, a new one gets the next index
Enumerate(en, label) ==
    IF label \in DOMAIN en THEN en ELSE en @@ (label :> Cardinality(DOMAIN en))

\* Increment that stores 1 whatever the count was
IncrementOnce(counts, idx) ==
    IF idx \in DOMAIN counts
    THEN [counts EXCEPT ![idx] = 1]
    ELSE counts @@ (idx :> 1)

\* lines 134-137: count one occurrence of column idx
Increment(counts, idx) ==
    IF idx \in DOMAIN counts
    THEN [counts EXCEPT ![idx] = @ + 1]
    ELSE counts @@ (idx :> 1)

(***************************************************************************)
(* Lines 127-137, one (u, v) of graph i.  st = [enum, sp_counts, err].     *)
(* Indexing the labels past their end raises (IndexError for a sequence,   *)
(* KeyError for a dict).                                                   *)
(***************************************************************************)
ScanPair(st, S, L, i, u, v, wl) ==
    IF Skipped(S, u, v) THEN st
    ELSE IF wl /\ (u \notin DOMAIN L \/ v \notin DOMAIN L)
    THEN [st EXCEPT !.err = "IndexError"]
    ELSE LET label == lhash(S, u, v, L, wl)
             en == Enumerate(st.enum, label)
         IN  [enum |-> en,
              sp_counts |-> [st.sp_counts EXCEPT ![i] = Increment(@, en[label])],
              err |-> ""]

\* lines 139-142
PhiX(counts, n, ne) ==
    [r \in 0..(n - 1) |->
        [j \in 0..(ne - 1) |-> IF j \in DOMAIN counts[r] THEN counts[r][j] ELSE 0]]

Transpose(M, rows, cols) ==
    [c \in 0..(cols - 1) |-> [r \in 0..(rows - 1) |-> M[r][c]]]

\* PhiY whose self-comparison columns all hold graph 0's row
PhiYStaleRow(counts, px, yNone, n, nall, ne) ==
    IF yNone THEN [j \in 0..(ne - 1) |-> [c \in 0..(n - 1) |-> px[0][j]]]
    ELSE [j \in 0..(ne - 1) |->
            [c \in 0..(nall - n - 1) |->
                IF j \in DOMAIN counts[c + n] THEN counts[c + n][j] ELSE 0]]

\* lines 144-150
PhiY(counts, px, yNone, n, nall, ne) ==
    IF yNone THEN Transpose(px, n, ne)
    ELSE [j \in 0..(ne - 1) |->
            [c \in 0..(nall - n - 1) |->
                IF j \in DOMAIN counts[c + n] THEN counts[c + n][j] ELSE 0]]

RECURSIVE DotEntry(_, _, _, _, _)
DotEntry(A, B, r, c, m) ==
    IF m = 0 THEN 0 ELSE DotEntry(A, B, r, c, m - 1) + A[r][m - 1] * B[m - 1][c]

\* np.dot of an (rows x m) by an (m x cols) array
Dot(A, B, rows, m, cols) ==
    [r \in 0..(rows - 1) |-> [c \in 0..(cols - 1) |-> DotEntry(A, B, r, c, m)]]

\* KernelMatrix without the final transpose
KernelMatrixUntransposed(px, py, n, ne, ncols) == Dot(px, py, n, ne, ncols)

\* line 152
KernelMatrix(px, py, n, ne, ncols) ==
    Transpose(Dot(px, py, n, ne, ncols), n, ncols)

\* lines 102-110: the graphs in processing order, X first and then Y
Chain(Gx, Gy, yNone) ==
    IF yNone THEN Gx
    ELSE LET n == Shape0(Gx)
         IN  [k \in 0..(n + Shape0(Gy) - 1) |-> IF k < n THEN Gx[k] ELSE Gy[k - n]]

EmptyEncoding == [enum |-> << >>, sp_counts |-> << >>, err |-> ""]

\* BeginGraph that swallows the failure and goes on with an empty graph
BeginGraphSwallow(st, g, i, algorithm, wl) ==
    LET r == build_shortest_path_matrix(g, algorithm, LabelMode(wl))
    IN  [st |-> [enum |-> st.enum,
                 sp_counts |-> st.sp_counts @@ (i :> << >>),
                 err |-> ""],
         S |-> r.S, L |-> r.L]

\* lines 122-124: a fresh histogram for graph i, then its path matrix
BeginGraph(st, g, i, algorithm, wl) ==
    LET r == build_shortest_path_matrix(g, algorithm, LabelMode(wl))
    IN  [st |-> [enum |-> st.enum,
                 sp_counts |-> st.sp_counts @@ (i :> << >>),
                 err |-> r.err],
         S |-> r.S, L |-> r.L]

\* lines 125-137: the scan of graph i from position p = u * n + v on
RECURSIVE ScanFrom(_, _, _, _, _, _)
ScanFrom(st, S, L, i, p, wl) ==
    LET n == Shape0(S)
    IN  IF p >= n * n \/ st.err # "" THEN st
        ELSE ScanFrom(ScanPair(st, S, L, i, p \div n, p % n, wl),
                      S, L, i, p + 1, wl)

\* lines 121-137: the graphs from position i on
RECURSIVE EncodeFrom(_, _, _, _, _)
EncodeFrom(st, G, i, algorithm, wl) ==
    IF i >= Shape0(G) \/ st.err # "" THEN st
    ELSE LET b == BeginGraph(st, G[i], i, algorithm, wl)
         IN  EncodeFrom(ScanFrom(b.st, b.S, b.L, i, 0, wl), G, i + 1, algorithm, wl)

\* lines 102-152: one whole call, [err, K]
MatrixCall(Gx, Gy, yNone, algorithm, wl) ==
    LET n == Shape0(Gx)
        G == Chain(Gx, Gy, yNone)
        st == EncodeFrom(EmptyEncoding, G, 0, algorithm, wl)
        ne == Cardinality(DOMAIN st.enum)
        px == PhiX(st.sp_counts, n, ne)
        py == PhiY(st.sp_counts, px, yNone, n, Shape0(G), ne)
    IN  IF st.err # "" THEN [err |-> st.err, K |-> << >>]
        ELSE [err |-> "",
              K |-> KernelMatrix(px, py, n, ne, IF yNone THEN n ELSE Shape0(G) - n)]

(***************************************************************************)
(* The attribute kernels a caller passes: the default np.dot, and a kernel *)
(* that is not symmetric in its arguments, lambda x, y: x[0] * y[1].       *)
(***************************************************************************)
AttributeKernels == {"dot", "first_second"}

AttributeKernel(name, x, y) ==
    IF name = "dot" THEN x[1] * y[1] + x[2] * y[2] ELSE x[1] * y[2]

\* InnerStep without the test for an infinite length
InnerStepInfMatches(acc, A, B, ax, ay, ak, a, b, k, m) ==
    IF k = m THEN acc
    ELSE IF A[a][b] = B[k][m]
    THEN acc + AttributeKernel(ak, ax[a], ay[k]) * AttributeKernel(ak, ax[b], ay[m])
    ELSE acc

\* lines 196-200: one (k, m) of the inner loops
InnerStep(acc, A, B, ax, ay, ak, a, b, k, m) ==
    IF k = m THEN acc
    ELSE IF A[a][b] = B[k][m] /\ A[a][b] # Inf
    THEN acc + AttributeKernel(ak, ax[a], ay[k]) * AttributeKernel(ak, ax[b], ay[m])
    ELSE acc

\* lines 194-200: the inner loops from position q = k * dimy + m on; the
\* running kernel acc is a number, evaluated at every step
RECURSIVE InnerFrom(_, _, _, _, _, _, _, _, _)
InnerFrom(acc, A, B, ax, ay, ak, a, b, q) ==
    LET dy == Shape0(B)
    IN  IF q >= dy * dy \/ acc \notin Int THEN acc
        ELSE InnerFrom(InnerStep(acc, A, B, ax, ay, ak, a, b, q \div dy, q % dy),
                       A, B, ax, ay, ak, a, b, q + 1)

\* lines 192-200: the body of the (i, j) iteration
OuterStep(acc, A, B, ax, ay, ak, a, b) ==
    IF a = b THEN acc ELSE InnerFrom(acc, A, B, ax, ay, ak, a, b, 0)

\* lines 190-200 from position p = i * dimx + j on
RECURSIVE OuterFrom(_, _, _, _, _, _, _)
OuterFrom(acc, A, B, ax, ay, ak, p) ==
    LET dx == Shape0(A)
    IN  IF p >= dx * dx \/ acc \notin Int THEN acc
        ELSE OuterFrom(OuterStep(acc, A, B, ax, ay, ak, p \div dx, p % dx),
                       A, B, ax, ay, ak, p + 1)

\* lines 183-202: one whole call, [err, kernel]
PairAttributesCall(g1, g2, algorithm, ak) ==
    LET rx == build_shortest_path_matrix(g1, algorithm, "vertex")
        ry == build_shortest_path_matrix(g2, algorithm, "vertex")
    IN  IF rx.err # "" THEN [err |-> rx.err, kernel |-> 0]
        ELSE IF ry.err # "" THEN [err |-> ry.err, kernel |-> 0]
        ELSE [err |-> "", kernel |-> OuterFrom(0, rx.S, ry.S, rx.L, ry.L, ak, 0)]

\* FacadeBatches that leaves Graphs_y out
FacadeBatchesXOnly(g1, g2) ==
    [Graphs_x |-> (0 :> g1), Graphs_y |-> << >>, y_is_None |-> TRUE]

\* lines 54-55: the two graphs as one-element batches
FacadeBatches(g1, g2) ==
    [Graphs_x |-> (0 :> g1), Graphs_y |-> (0 :> g2), y_is_None |-> FALSE]

\* lines 46-60: one whole call, [err, kernel]
ShortestPathCall(g1, g2, algorithm, ka) ==
    IF ka.as_attributes
    THEN PairAttributesCall(g1, g2, algorithm, ka.attribute_kernel)
    ELSE LET b == FacadeBatches(g1, g2)
             r == MatrixCall(b.Graphs_x, b.Graphs_y, b.y_is_None, algorithm,
                             ka.with_labels)
         IN  IF r.err # "" THEN [err |-> r.err, kernel |-> 0]
             ELSE [err |-> "", kernel |-> r.K[0][0]]

(***************************************************************************)
(* The state: the arguments and locals of the three functions, the place   *)
(* of the running call (pc) and the exception that ended it (err).         *)
(***************************************************************************)
VARIABLES
    pc, err, caller,
    \* shortest_path
    g_x, g_y, kargs,
    \* shortest_path_matrix
    Graphs_x, Graphs_y, y_is_None, algorithm_type, with_labels,
    i, u, v, S, L, enum, sp_counts, phi_x, phi_y, K,
    \* shortest_path_pair_attributes
    gx, gy, attribute_kernel, Sx, Sy, attr_x, attr_y, p, kernel

facadeVars == <<g_x, g_y, kargs>>
inputVars == <<Graphs_x, Graphs_y, y_is_None, with_labels>>
scanVars == <<i, u, v, S, L, enum, sp_counts>>
phiVars == <<phi_x, phi_y, K>>
attrInputVars == <<gx, gy, attribute_kernel>>
attrVars == <<Sx, Sy, attr_x, attr_y, p>>
vars == <<pc, err, caller, facadeVars, inputVars, algorithm_type, scanVars,
          phiVars, attrInputVars, attrVars, kernel>>

\* lines 102-110
nx == Shape0(Graphs_x)
Gs == Chain(Graphs_x, Graphs_y, y_is_None)
ng == Shape0(Gs)
ny == Shape0(Graphs_y)

DefaultKargs ==
    [as_attributes |-> FALSE, with_labels |-> TRUE, attribute_kernel |-> "dot"]

\* the locals before the call has set them
Unset ==
    /\ err = ""
    /\ i = 0 /\ u = 0 /\ v = 0 /\ S = << >> /\ L = << >>
    /\ enum = << >> /\ sp_counts = << >>
    /\ phi_x = << >> /\ phi_y = << >> /\ K = << >>
    /\ Sx = << >> /\ Sy = << >> /\ attr_x = << >> /\ attr_y = << >>
    /\ p = 0 /\ kernel = 0

\* a call of shortest_path_matrix(Gx, Gy or None, algorithm, wl)
MatrixEntry(Gx, Gy, yNone, algorithm, wl) ==
    /\ pc = "shortest_path_matrix" /\ caller = "caller"
    /\ Graphs_x = Gx /\ Graphs_y = Gy /\ y_is_None = yNone
    /\ algorithm_type = algorithm /\ with_labels = wl
    /\ g_x = NoGraph /\ g_y = NoGraph /\ kargs = DefaultKargs
    /\ gx = NoGraph /\ gy = NoGraph /\ attribute_kernel = "dot"
    /\ Unset

\* a call of shortest_path(X, Y, Lx, Ly, algorithm, **ka)
FacadeEntry(g1, g2, algorithm, ka) ==
    /\ pc = "shortest_path" /\ caller = "caller"
    /\ g_x = g1 /\ g_y = g2 /\ kargs = ka /\ algorithm_type = algorithm
    /\ Graphs_x = << >> /\ Graphs_y = << >> /\ y_is_None = TRUE
    /\ with_labels = TRUE
    /\ gx = NoGraph /\ gy = NoGraph /\ attribute_kernel = "dot"
    /\ Unset

\* a call of shortest_path_pair_attributes(g1, g2, algorithm, ak)
AttributesEntry(g1, g2, algorithm, ak) ==
    /\ pc = "shortest_path_pair_attributes" /\ caller = "caller"
    /\ gx = g1 /\ gy = g2 /\ attribute_kernel = ak /\ algorithm_type = algorithm
    /\ g_x = NoGraph /\ g_y = NoGraph /\ kargs = DefaultKargs
    /\ Graphs_x = << >> /\ Graphs_y = << >> /\ y_is_None = TRUE
    /\ with_labels = TRUE
    /\ Unset

\* the batches of one call: X alone, or X and Y, of at most MaxGraphs graphs
MatrixInputs(pool, algorithms) ==
    \E n \in 0..MaxGraphs, m \in 0..MaxGraphs, yNone \in BOOLEAN :
        /\ n + m <= MaxGraphs
        /\ yNone => m = 0
        /\ \E Gx \in Batches(pool, n), Gy \in Batches(pool, m),
              algorithm \in algorithms, wl \in BOOLEAN :
                MatrixEntry(Gx, Gy, yNone, algorithm, wl)

Init == MatrixInputs(GraphPool, {"dijkstra"})

(***************************************************************************)
(* shortest_path, lines 46-60                                              *)
(***************************************************************************)
shortest_path ==
    /\ pc = "shortest_path"
    /\ caller' = "shortest_path"
    /\ IF kargs.as_attributes
       THEN /\ gx' = g_x /\ gy' = g_y
            /\ attribute_kernel' = kargs.attribute_kernel
            /\ pc' = "shortest_path_pair_attributes"
            /\ UNCHANGED inputVars
       ELSE /\ LET b == FacadeBatches(g_x, g_y)
               IN  /\ Graphs_x' = b.Graphs_x
                   /\ Graphs_y' = b.Graphs_y
                   /\ y_is_None' = b.y_is_None
            /\ with_labels' = kargs.with_labels
            /\ pc' = "shortest_path_matrix"
            /\ UNCHANGED attrInputVars
    /\ UNCHANGED <<err, facadeVars, algorithm_type, scanVars, phiVars, attrVars,
                   kernel>>

\* line 60: the [0, 0] entry of the matrix returned
Index00 ==
    /\ pc = "index"
    /\ kernel' = K[0][0]
    /\ pc' = "done"
    /\ UNCHANGED <<err, caller, facadeVars, inputVars, algorithm_type, scanVars,
                   phiVars, attrInputVars, attrVars>>

(***************************************************************************)
(* shortest_path_matrix, lines 102-152                                     *)
(***************************************************************************)
\* lines 102-121: the locals, and the head of the loop over the graphs
MatrixEnter ==
    /\ pc = "shortest_path_matrix"
    /\ enum' = << >> /\ sp_counts' = << >> /\ i' = 0
    /\ pc' = IF ng > 0 THEN "graph" ELSE "phi_x"
    /\ UNCHANGED <<err, caller, facadeVars, inputVars, algorithm_type, u, v, S, L,
                   phiVars, attrInputVars, attrVars, kernel>>

\* where the loops go after the scan of graph i
AfterGraph == IF i + 1 < ng THEN "graph" ELSE "phi_x"

\* lines 122-125: graph i's histogram and path matrix
StartGraph ==
    /\ pc = "graph"
    /\ LET b == BeginGraph([enum |-> enum, sp_counts |-> sp_counts, err |-> ""],
                           Gs[i], i, algorithm_type, with_labels)
       IN  /\ sp_counts' = b.st.sp_counts
           /\ err' = b.st.err
           /\ S' = b.S /\ L' = b.L
           /\ u' = 0 /\ v' = 0
           /\ IF b.st.err # "" THEN pc' = "raised" /\ i' = i
              ELSE IF Shape0(b.S) = 0 THEN pc' = AfterGraph /\ i' = i + 1
              ELSE pc' = "scan" /\ i' = i
    /\ UNCHANGED <<caller, facadeVars, inputVars, algorithm_type, enum, phiVars,
                   attrInputVars, attrVars, kernel>>

\* lines 125-137: one (u, v) of graph i, then on to the next pair or graph
Scan ==
    /\ pc = "scan"
    /\ LET st == ScanPair([enum |-> enum, sp_counts |-> sp_counts, err |-> ""],
                          S, L, i, u, v, with_labels)
           n == Shape0(S)
       IN  /\ enum' = st.enum
           /\ sp_counts' = st.sp_counts
           /\ err' = st.err
           /\ IF st.err # "" THEN pc' = "raised" /\ UNCHANGED <<i, u, v>>
              ELSE IF v + 1 < n THEN v' = v + 1 /\ UNCHANGED <<pc, i, u>>
              ELSE IF u + 1 < n THEN u' = u + 1 /\ v' = 0 /\ UNCHANGED <<pc, i>>
              ELSE pc' = AfterGraph /\ i' = i + 1 /\ UNCHANGED <<u, v>>
    /\ UNCHANGED <<caller, facadeVars, inputVars, algorithm_type, S, L, phiVars,
                   attrInputVars, attrVars, kernel>>

\* lines 139-142
BuildPhiX ==
    /\ pc = "phi_x"
    /\ phi_x' = PhiX(sp_counts, nx, Cardinality(DOMAIN enum))
    /\ pc' = "phi_y"
    /\ UNCHANGED <<err, caller, facadeVars, inputVars, algorithm_type, scanVars,
                   phi_y, K, attrInputVars, attrVars, kernel>>

\* lines 144-150
BuildPhiY ==
    /\ pc = "phi_y"
    /\ phi_y' = PhiY(sp_counts, phi_x, y_is_None, nx, ng, Cardinality(DOMAIN enum))
    /\ pc' = "return"
    /\ UNCHANGED <<err, caller, facadeVars, inputVars, algorithm_type, scanVars,
                   phi_x, K, attrInputVars, attrVars, kernel>>

\* line 152
Return ==
    /\ pc = "return"
    /\ K' = KernelMatrix(phi_x, phi_y, nx, Cardinality(DOMAIN enum),
                         IF y_is_None THEN nx ELSE ng - nx)
    /\ pc' = IF caller = "shortest_path" THEN "index" ELSE "done"
    /\ UNCHANGED <<err, caller, facadeVars, inputVars, algorithm_type, scanVars,
                   phi_x, phi_y, attrInputVars, attrVars, kernel>>

(***************************************************************************)
(* shortest_path_pair_attributes, lines 183-202                            *)
(***************************************************************************)
\* lines 183-190: the two path matrices, kernel = 0
AttributesEnter ==
    /\ pc = "shortest_path_pair_attributes"
    /\ LET rx == build_shortest_path_matrix(gx, algorithm_type, "vertex")
           ry == build_shortest_path_matrix(gy, algorithm_type, "vertex")
       IN  IF rx.err # "" \/ ry.err # ""
           THEN /\ err' = IF rx.err # "" THEN rx.err ELSE ry.err
                /\ pc' = "raised"
                /\ UNCHANGED <<attrVars, kernel>>
           ELSE /\ Sx' = rx.S /\ attr_x' = rx.L
                /\ Sy' = ry.S /\ attr_y' = ry.L
                /\ kernel' = 0 /\ p' = 0
                /\ pc' = IF Shape0(rx.S) > 0 THEN "pairs" ELSE "return_kernel"
                /\ UNCHANGED err
    /\ UNCHANGED <<caller, facadeVars, inputVars, algorithm_type, scanVars, phiVars,
                   attrInputVars>>

\* lines 190-200: one (i, j) of the outer loops, p = i * dimx + j
Pairs ==
    /\ pc = "pairs"
    /\ LET dimx == Shape0(Sx)
       IN  /\ kernel' = OuterStep(kernel, Sx, Sy, attr_x, attr_y, attribute_kernel,
                                  p \div dimx, p % dimx)
           /\ p' = p + 1
           /\ pc' = IF p + 1 < dimx * dimx THEN "pairs" ELSE "return_kernel"
    /\ UNCHANGED <<err, caller, facadeVars, inputVars, algorithm_type, scanVars,
                   phiVars, attrInputVars, Sx, Sy, attr_x, attr_y>>

\* line 202
ReturnKernel ==
    /\ pc = "return_kernel"
    /\ pc' = "done"
    /\ UNCHANGED <<err, caller, facadeVars, inputVars, algorithm_type, scanVars,
                   phiVars, attrInputVars, attrVars, kernel>>

MatrixNext == MatrixEnter \/ StartGraph \/ Scan \/ BuildPhiX \/ BuildPhiY \/ Return

Next ==
    \/ MatrixNext
    \/ shortest_path \/ Index00
    \/ AttributesEnter \/ Pairs \/ ReturnKernel

\* calls of shortest_path_matrix on batches of the pool
Spec == Init /\ [][MatrixNext]_vars

\* the triangles of Scenario A, alone or two in one batch, without labels
InitA ==
    \E n \in 1..2 :
        \E Gx \in Batches({Triangle(<<a, b, c>>) : a, b, c \in {"A", "B"}}, n),
           algorithm \in AlgorithmTypes :
            MatrixEntry(Gx, << >>, TRUE, algorithm, FALSE)

SpecA == InitA /\ [][MatrixNext]_vars

\* batches, neither X nor a given Y empty, with label vectors shorter or
\* longer than the path matrix
InitDim ==
    MatrixInputs(DimPool, {"dijkstra"}) /\ nx >= 1 /\ (y_is_None \/ ny >= 1)

SpecDim == InitDim /\ [][MatrixNext]_vars

\* the keyword arguments of shortest_path
Kargs ==
    [as_attributes : BOOLEAN, with_labels : BOOLEAN,
     attribute_kernel : AttributeKernels]

FacadeInputs(algorithms) ==
    \E ka \in Kargs, algorithm \in algorithms :
        IF ka.as_attributes
        THEN /\ ka.with_labels
             /\ \E g1, g2 \in AttrPool : FacadeEntry(g1, g2, algorithm, ka)
        ELSE /\ ka.attribute_kernel = "dot"
             /\ \E g1, g2 \in GraphPool : FacadeEntry(g1, g2, algorithm, ka)

\* single-pair calls of shortest_path, attributed or not
InitPair == FacadeInputs({"dijkstra"})

SpecPair == InitPair /\ [][Next]_vars

\* the three entry points under every algorithm_type, "bfs" among them
AlgPool ==
    { Graph(<< <<0>> >>, <<"A">>),
      Graph(<< <<0, 2>>, <<Inf, 0>> >>, <<"B", "A">>) }

InitAlg ==
    LET algorithms == AlgorithmTypes \cup {"bfs"}
    IN  \/ MatrixInputs(AlgPool, algorithms)
        \/ FacadeInputs(algorithms)
        \/ \E g1, g2 \in AttrPool, algorithm \in algorithms,
              ak \in AttributeKernels :
                AttributesEntry(g1, g2, algorithm, ak)

SpecAlg == InitAlg /\ [][Next]_vars

(***************************************************************************)
(* What the claims compare the code with: the features of a graph and      *)
(* their counts, read off the path matrix and the labels.                  *)
(***************************************************************************)
RECURSIVE SumOver(_)
SumOver(f) ==
    IF DOMAIN f = {} THEN 0
    ELSE LET x == CHOOSE x \in DOMAIN f : TRUE
         IN  f[x] + SumOver([y \in DOMAIN f \ {x} |-> f[y]])

PathPairs(g) ==
    {pr \in (DOMAIN g.S) \X (DOMAIN g.S) : pr[1] # pr[2] /\ g.S[pr[1]][pr[2]] # Inf}

FeatureOf(g, a, b, wl) ==
    IF wl THEN <<g.labels[a], g.labels[b], g.S[a][b]>> ELSE <<g.S[a][b]>>

Features(g, wl) == {FeatureOf(g, pr[1], pr[2], wl) : pr \in PathPairs(g)}

Count(g, f, wl) ==
    Cardinality({pr \in PathPairs(g) : FeatureOf(g, pr[1], pr[2], wl) = f})

FeatureProduct(g1, g2, wl) ==
    SumOver([f \in Features(g1, wl) \cup Features(g2, wl) |->
                Count(g1, f, wl) * Count(g2, f, wl)])

\* C1: with Y given the matrix returned has shape (ny, nx) and entry [j, i]
\* is the sum over the features f of count_Yj(f) * count_Xi(f).
C1_RowsAreY ==
    (pc = "done" /\ ~y_is_None) =>
        /\ DOMAIN K = 0..(ny - 1)
        /\ \A j \in 0..(ny - 1) :
            /\ DOMAIN K[j] = 0..(nx - 1)
            /\ \A c \in 0..(nx - 1) :
                K[j][c] = FeatureProduct(Graphs_y[j], Graphs_x[c], with_labels)

\* two X graphs against one Y graph, the two entries differing
C1_Witness ==
    /\ pc = "done" /\ ~y_is_None /\ nx = 2 /\ ny = 1
    /\ K[0][0] > 0 /\ K[0][1] > K[0][0]

\* C2: without Y the matrix returned is symmetric.
C2_Symmetric ==
    (pc = "done" /\ y_is_None) =>
        \A a, b \in 0..(nx - 1) : K[a][b] = K[b][a]

C2_Witness ==
    /\ pc = "done" /\ y_is_None /\ nx >= 2
    /\ K[0][1] > 0 /\ K[0][0] # K[1][1]

\* C3 as stated: Scenario A, every entry of the Gram matrix of one or two
\* unlabelled unit triangles is 6.
C3_ScenarioA_Six ==
    pc = "done" => \A a, b \in 0..(nx - 1) : K[a][b] = 6

\* C3 as amended: each triangle's histogram is the one feature "length 1"
\* with count 6, and every entry of the Gram matrix is 6 * 6 = 36.
C3_ScenarioA ==
    pc = "done" =>
        /\ DOMAIN enum = {<<1>>}
        /\ \A a \in 0..(nx - 1) : sp_counts[a] = (0 :> 6)
        /\ DOMAIN K = 0..(nx - 1)
        /\ \A a, b \in 0..(nx - 1) : K[a][b] = 36

C3_Witness ==
    pc = "done" /\ nx = 2 /\ algorithm_type = "dijkstra" /\ K[1][0] = 36

\* the count the histogram of graph k holds for feature f
HistCount(k, f) ==
    IF f \in DOMAIN enum /\ enum[f] \in DOMAIN sp_counts[k]
    THEN sp_counts[k][enum[f]]
    ELSE 0

\* the graphs whose scan is over, once the scan stands between two graphs
\* or has ended
Scanned == IF pc = "scan" THEN {} ELSE {k \in DOMAIN sp_counts : k < i}

\* C4: the histogram of a scanned graph counts, for every feature f, exactly
\* the ordered pairs (u, v), u # v, of finite length whose feature is f
\* (the length, or (L[u], L[v], length) with labels), and nothing else.
C4_HistogramCounts ==
    \A k \in Scanned :
        /\ \A f \in Features(Gs[k], with_labels) \cup DOMAIN enum :
            HistCount(k, f) = Count(Gs[k], f, with_labels)
        /\ \A idx \in DOMAIN sp_counts[k] :
            \E f \in Features(Gs[k], with_labels) :
                f \in DOMAIN enum /\ enum[f] = idx

\* a labelled batch scanned to the end, with a graph that has an unreachable
\* pair, a feature met twice in one graph, and a feature (a, b, d) met in a
\* graph that has no (b, a, d)
C4_Witness ==
    /\ pc = "done" /\ with_labels
    /\ \E k \in Scanned : \E a, b \in DOMAIN Gs[k].S : Gs[k].S[a][b] = Inf
    /\ \E k \in Scanned : \E idx \in DOMAIN sp_counts[k] : sp_counts[k][idx] = 2
    /\ \E k \in Scanned :
        \E f \in DOMAIN enum :
            HistCount(k, f) = 1 /\ HistCount(k, <<f[2], f[1], f[3]>>) = 0

\* the enumeration is a bijection onto 0..|enum|-1 and bounds every
\* histogram index and the columns of the feature matrices
EnumOnto ==
    /\ \A f, h \in DOMAIN enum : enum[f] = enum[h] => f = h
    /\ {enum[f] : f \in DOMAIN enum} = 0..(Cardinality(DOMAIN enum) - 1)
    /\ \A k \in DOMAIN sp_counts :
        \A idx \in DOMAIN sp_counts[k] : idx < Cardinality(DOMAIN enum)
    /\ pc \in {"phi_y", "return", "done"} =>
        \A r \in DOMAIN phi_x : DOMAIN phi_x[r] = 0..(Cardinality(DOMAIN enum) - 1)

\* one step keeps every index and gives a new feature the next integer
EnumGrows ==
    /\ \A f \in DOMAIN enum : f \in DOMAIN enum' /\ enum'[f] = enum[f]
    /\ \A f \in DOMAIN enum' \ DOMAIN enum : enum'[f] = Cardinality(DOMAIN enum)
    /\ Cardinality(DOMAIN enum') <= Cardinality(DOMAIN enum) + 1

\* C10: throughout a call the enumeration maps the features seen so far
\* one-to-one onto 0..|enum|-1 in first-seen order: a step never changes or
\* removes an index, a new feature gets index |enum|, and every histogram
\* index is below |enum|, the column count of the feature matrices.
C10_Enumeration == []EnumOnto /\ [][EnumGrows]_vars

\* the scan of a second graph has met a feature of the first and a new one
C10_Witness ==
    /\ pc = "scan" /\ i = 1
    /\ Cardinality(DOMAIN enum) >= 3
    /\ DOMAIN sp_counts[1] \cap DOMAIN sp_counts[0] # {}
    /\ DOMAIN sp_counts[1] \ DOMAIN sp_counts[0] # {}

\* the (i, j, k, m) whose lengths match: i # j in gx, k # m in gy, equal
\* and finite
Matching(g1, g2) ==
    {q \in PathPairs(g1) \X PathPairs(g2) :
        g1.S[q[1][1]][q[1][2]] = g2.S[q[2][1]][q[2][2]]}

\* C5: shortest_path_pair_attributes returns the sum, over the ordered pairs
\* (i, j), i # j, of gx and (k, m), k # m, of gy with Sx[i, j] = Sy[k, m]
\* finite, of attribute_kernel(attr_x[i], attr_y[k]) *
\* attribute_kernel(attr_x[j], attr_y[m]); 0 when nothing matches.
C5_AttributedSum ==
    (pc = "done" /\ kargs.as_attributes) =>
        kernel =
            SumOver([q \in Matching(gx, gy) |->
                AttributeKernel(attribute_kernel,
                                gx.labels[q[1][1]], gy.labels[q[2][1]])
                * AttributeKernel(attribute_kernel,
                                  gx.labels[q[1][2]], gy.labels[q[2][2]])])

\* both graphs have an unreachable pair, some lengths match, and the kernel
\* passed is the one that is not symmetric
C5_Witness ==
    /\ pc = "done" /\ kargs.as_attributes /\ attribute_kernel = "first_second"
    /\ kernel > 0
    /\ \E a, b \in DOMAIN gx.S : gx.S[a][b] = Inf
    /\ \E a, b \in DOMAIN gy.S : gy.S[a][b] = Inf

\* a call on no graph at all: shortest_path_matrix on an empty batch
EmptyCall == g_x = NoGraph /\ gx = NoGraph /\ ng = 0

\* C6: with an algorithm_type outside dijkstra, floyd_warshall, auto a call
\* on at least one graph of any of the three entry points ends with the
\* UnsupportedAlgorithm of build_shortest_path_matrix: it never gets past
\* the first path matrix, and returns no kernel value and no matrix.
C6_UnsupportedAlgorithm ==
    (algorithm_type \notin AlgorithmTypes /\ ~EmptyCall) =>
        /\ pc \in {"shortest_path", "shortest_path_matrix",
                   "shortest_path_pair_attributes", "graph", "raised"}
        /\ pc = "raised" => err = "UnsupportedAlgorithm"
        /\ K = << >> /\ kernel = 0 /\ enum = << >>
        /\ ENABLED Next \/ pc = "raised"

C6_Witness ==
    /\ pc = "raised" /\ err = "UnsupportedAlgorithm" /\ algorithm_type = "bfs"
    /\ caller = "shortest_path" /\ ~kargs.as_attributes

\* a graph of the batch whose label vector is not as long as its path matrix
Mismatched == {k \in DOMAIN Gs : Shape0(Gs[k].labels) # Shape0(Gs[k].S)}

\* C7: with labels, a batch holding a graph whose label vector is shorter or
\* longer than the dimension of its path matrix fails with
\* DimensionMismatch: it never returns a kernel matrix.
C7_DimensionMismatch ==
    (with_labels /\ Mismatched # {}) => pc # "done"

\* C8: shortest_path(g1, g2) without attributes is entry (1, 0), and (0, 1),
\* of shortest_path_matrix on the one batch [g1, g2].
C8_PairIsBatchEntry ==
    (pc = "done" /\ ~kargs.as_attributes) =>
        LET r == MatrixCall((0 :> g_x) @@ (1 :> g_y), << >>, TRUE,
                            algorithm_type, kargs.with_labels)
        IN  r.err = "" /\ kernel = r.K[1][0] /\ kernel = r.K[0][1]

\* two different graphs with a common labelled feature
C8_Witness ==
    /\ pc = "done" /\ ~kargs.as_attributes /\ kargs.with_labels
    /\ g_x # g_y /\ kernel > 0 /\ Shape0(g_x.S) # Shape0(g_y.S)

Renumberings(n) ==
    {q \in [0..(n - 1) -> 0..(n - 1)] : \A a, b \in 0..(n - 1) : q[a] = q[b] => a = b}

\* the graph with its vertices renumbered: matrix and labels alike
Permute(g, q) ==
    [S |-> [a \in DOMAIN g.S |-> [b \in DOMAIN g.S |-> g.S[q[a]][q[b]]]],
     labels |-> [a \in DOMAIN g.labels |-> g.labels[q[a]]]]

\* C9: renumbering the vertices of g (path matrix and labels or attributes
\* together) leaves shortest_path(g, g') unchanged, with the histogram
\* kernel and with the attributed kernel.
C9_PermutationInvariant ==
    pc = "done" =>
        \A q \in Renumberings(Shape0(g_x.S)) :
            LET r == ShortestPathCall(Permute(g_x, q), g_y, algorithm_type, kargs)
            IN  r.err = "" /\ r.kernel = kernel

\* a graph that a renumbering changes, in either kind of call
C9_Witness ==
    /\ pc = "done" /\ kernel > 0
    /\ \E a, b \in DOMAIN g_x.S : g_x.S[a][b] # g_x.S[b][a]
    /\ \E q \in Renumberings(Shape0(g_x.S)) : Permute(g_x, q) # g_x

====
